---- MODULE Spec2Model ----
(***************************************************************************)
(* Model of backend/main.py of the advisor voice agent: the turn handler   *)
(* next_agent_reply, the extraction adapter detect_intent_and_extract, the *)
(* offline parser local_intent_fallback, the PII guard, the slot selector  *)
(* and the in-memory stores STATE and BOOKINGS.                            *)
(*                                                                         *)
(* Representation.                                                         *)
(*  - Python None is the string "None" for scalar fields; a field holding  *)
(*    slots is a sequence (<<>> for None, which Python also treats as      *)
(*    falsy).                                                              *)
(*  - An utterance is a sequence of words from Vocabulary, standing for    *)
(*    the words joined by single spaces. Python's substring test           *)
(*    `kw in text.lower()` for a one-word keyword kw is Has(text, kw):     *)
(*    some word of the text contains kw, as tabulated in Substrings.       *)
(*  - A JSON value that is not a string is a string starting with "#".     *)
(*  - A reply is a sequence: the template's opening words followed by the  *)
(*    values interpolated into it.                                         *)
(***************************************************************************)
EXTENDS Integers, Sequences, FiniteSets, TLC

None == "None"

\* ------------------------------------------------------------------ bounds

\* longest utterance, in words
MaxLen == 2

\* ------------------------------------------------------------------ config

TIMEZONE_LABEL == "IST"

SECURE_LINK_BASE == "http://localhost:5173/secure"

TOPICS ==
  << "KYC/Onboarding", "SIP/Mandates", "Statements/Tax Docs",
     "Withdrawals & Timelines", "Account Changes/Nominee" >>

MOCK_SLOTS ==
  << [slot_id |-> "SLOT-101", start |-> "2026-01-02 10:00 AM", end |-> "10:30 AM"],
     [slot_id |-> "SLOT-102", start |-> "2026-01-02 11:00 AM", end |-> "11:30 AM"],
     [slot_id |-> "SLOT-103", start |-> "2026-01-02 03:00 PM", end |-> "03:30 PM"],
     [slot_id |-> "SLOT-104", start |-> "2026-01-02 05:00 PM", end |-> "05:30 PM"] >>

InTopics(t) == \E i \in 1..Len(TOPICS) : TOPICS[i] = t

\* ------------------------------------------------------------------ utterances

\* The words a caller may say; one of them is a phrase of two words, a day
\* and a time.
Vocabulary ==
  { "kyc", "tomorrow", "tomorrow evening", "cancel", "book",
    "1", "2", "yes", "invest", "NL-A742", "nl-b1c3", "9876543210" }

\* The keywords of main.py (lower case) that occur in w.lower().
Substrings(w) ==
  CASE w = "kyc"        -> {"kyc"}
    [] w = "tomorrow"   -> {"tomorrow"}
    [] w = "evening"    -> {"evening"}
    [] w = "tomorrow evening" -> {"tomorrow", "evening"}
    [] w = "cancel"     -> {"cancel"}
    [] w = "reschedule" -> {"reschedule", "schedule"}
    [] w = "prepare"    -> {"prepare"}
    [] w = "available"  -> {"available"}
    [] w = "nominee"    -> {"nominee"}
    [] w = "friday"     -> {"friday"}
    [] w = "morning"    -> {"morning"}
    [] w = "book"       -> {"book"}
    [] w = "1"          -> {"1"}
    [] w = "2"          -> {"2"}
    [] w = "yes"        -> {"yes"}
    [] w = "invest"     -> {"invest"}
    [] w = "NL-A742"    -> {"2"}
    [] w = "nl-b1c3"    -> {"1"}
    [] w = "9876543210" -> {"1", "2"}
    [] OTHER            -> {}

\* user_text after .strip(): the empty text or 1..MaxLen words
Texts == UNION { [1..n -> Vocabulary] : n \in 0..MaxLen }

\* kw in text.lower()
Has(text, kw) == \E i \in 1..Len(text) : kw \in Substrings(text[i])

\* any(k in lower for k in kws)
HasAny(text, kws) == \E kw \in kws : Has(text, kw)

\* ------------------------------------------------------------------ PII guard

\* Facts about single words that the patterns of PII_PATTERNS read.
\* the word matches the email pattern
IsEmailWord(w) == w \in {"a@b.co"}

\* the number of digits of a word made of digits only, 0 for any other word
DigitLen(w) ==
  CASE w \in {"1", "2"}   -> 1
    [] w = "9876543210"   -> 10
    [] w = "123456789012" -> 12
    [] OTHER              -> 0

RECURSIVE RunLen(_, _, _)
\* characters of words i..j of the text joined by spaces
RunLen(text, i, j) ==
  IF i > j THEN 0
  ELSE DigitLen(text[i]) + (IF i < j THEN 1 ELSE 0) + RunLen(text, i + 1, j)

\* r"\b(?:\+?\d[\d\s-]{8,}\d)\b": digits and separators, 10 characters or more
PhoneIsh(text) ==
  \E i \in 1..Len(text) : \E j \in i..Len(text) :
    /\ \A k \in i..j : DigitLen(text[k]) > 0
    /\ RunLen(text, i, j) >= 10

\* r"\baccount\b.*\b\d+\b": the word account, later a run of digits
AccountDigits(text) ==
  \E i \in 1..Len(text) : \E j \in (i + 1)..Len(text) :
    text[i] = "account" /\ DigitLen(text[j]) > 0

contains_pii(text) ==
  \/ \E i \in 1..Len(text) : IsEmailWord(text[i])
  \/ PhoneIsh(text)
  \/ \E i \in 1..Len(text) : DigitLen(text[i]) = 10
  \/ \E i \in 1..Len(text) : DigitLen(text[i]) = 12
  \/ AccountDigits(text)

\* ------------------------------------------------------------------ booking codes

\* re.search(r"\bNL-[A-Z0-9]{4}\b", w.upper()) on one word
CodeOfWord(w) ==
  CASE w = "NL-A742" -> "NL-A742"
    [] w = "nl-b1c3" -> "NL-B1C3"
    [] OTHER         -> None

\* the first match in the text, None without one
extract_booking_code(text) ==
  IF \E i \in 1..Len(text) : CodeOfWord(text[i]) # None
  THEN LET i == CHOOSE k \in 1..Len(text) :
                  /\ CodeOfWord(text[k]) # None
                  /\ \A m \in 1..(k - 1) : CodeOfWord(text[m]) = None
       IN CodeOfWord(text[i])
  ELSE None

\* The values generate_booking_code() may draw.
GeneratedCodes == {"NL-A742", "NL-Q9Z8"}

secure_link_for(code) == << SECURE_LINK_BASE, "?code=", code >>

\* ------------------------------------------------------------------ extraction

\* A Python dict is a function from its keys; {} is the empty function.
\* d.get(k)
Get(d, k) == IF k \in DOMAIN d THEN d[k] ELSE None

\* JSON values that are not strings (numbers)
NonStrings == {"#7", "#17"}

\* bool(v) for a JSON scalar
Truthy(v) == v \notin {None, "", "#0"}

\* v.strip() for a string v
Strip(v) ==
  CASE v = " cancel " -> "cancel"
    [] OTHER          -> v

_json_fallback ==
  [intent |-> "other", topic |-> None, day_preference |-> None, time_preference |-> None]

\* What gemini.models.generate_content does on one call: it raises, or it
\* answers with a text. The text is described by what the adapter reads of it:
\*   empty      resp.text is None or blank
\*   prose      no brace-delimited span
\*   malformed  a brace-delimited span that json.loads rejects
\*   object     a JSON object alone
\*   fenced     a JSON object inside code fences or prose

\* extract_first_json_object(raw): <<>> for None, <<d>> for the dict d
extract_first_json_object(raw) ==
  IF raw.kind = "empty" THEN <<>>
  ELSE IF raw.kind = "prose" THEN <<>>
  ELSE IF raw.kind = "malformed" THEN <<>>
  ELSE <<raw.obj>>

WEEKDAYS ==
  << "monday", "tuesday", "wednesday", "thursday", "friday", "saturday", "sunday" >>

\* a slip: only the intent other is escalated
local_intent_fallback_other_only(text, S) ==
  LET topic ==
        IF Has(text, "kyc") \/ Has(text, "onboard") THEN "KYC/Onboarding"
        ELSE IF Has(text, "sip") \/ Has(text, "mandate") THEN "SIP/Mandates"
        ELSE IF Has(text, "statement") \/ Has(text, "tax") THEN "Statements/Tax Docs"
        ELSE IF Has(text, "withdraw") \/ Has(text, "timeline") \/ Has(text, "redemption")
             THEN "Withdrawals & Timelines"
        ELSE IF Has(text, "nominee") \/ Has(text, "account change") \/ Has(text, "profile")
             THEN "Account Changes/Nominee"
        ELSE None
      day_preference ==
        IF Has(text, "tomorrow") THEN "tomorrow"
        ELSE IF Has(text, "today") THEN "today"
        ELSE IF \E i \in 1..Len(WEEKDAYS) : Has(text, WEEKDAYS[i])
             THEN WEEKDAYS[CHOOSE i \in 1..Len(WEEKDAYS) :
                             /\ Has(text, WEEKDAYS[i])
                             /\ \A k \in 1..(i - 1) : ~Has(text, WEEKDAYS[k])]
        ELSE None
      time_preference ==
        IF Has(text, "morning") THEN "morning"
        ELSE IF Has(text, "afternoon") THEN "afternoon"
        ELSE IF Has(text, "evening") \/ Has(text, "night") THEN "evening"
        ELSE None
      intent0 ==
        IF HasAny(text, {"reschedule", "move my", "change my time", "change slot"})
          THEN "reschedule"
        ELSE IF HasAny(text, {"cancel", "call off", "delete booking"}) THEN "cancel"
        ELSE IF HasAny(text, {"prepare", "what should i bring", "what to prepare"})
          THEN "what_to_prepare"
        ELSE IF HasAny(text, {"availability", "available", "check availability", "any slots"})
          THEN "check_availability"
        ELSE IF HasAny(text, {"book", "appointment", "schedule"}) THEN "book_new"
        ELSE "other"
      gave_booking_fields ==
        Truthy(topic) \/ Truthy(day_preference) \/ Truthy(time_preference)
      intent1 ==
        IF intent0 = "other" /\ gave_booking_fields
        THEN "book_new" ELSE intent0
      mid_booking == Truthy(S.topic) \/ Truthy(S.day_pref) \/ Truthy(S.time_pref)
      intent2 ==
        IF intent1 = "other" /\ mid_booking /\ gave_booking_fields
        THEN "book_new" ELSE intent1
  IN [intent |-> intent2, topic |-> topic,
      day_preference |-> day_preference, time_preference |-> time_preference]

\* local_intent_fallback(user_text), reading STATE as S
local_intent_fallback(text, S) ==
  LET topic ==
        IF Has(text, "kyc") \/ Has(text, "onboard") THEN "KYC/Onboarding"
        ELSE IF Has(text, "sip") \/ Has(text, "mandate") THEN "SIP/Mandates"
        ELSE IF Has(text, "statement") \/ Has(text, "tax") THEN "Statements/Tax Docs"
        ELSE IF Has(text, "withdraw") \/ Has(text, "timeline") \/ Has(text, "redemption")
             THEN "Withdrawals & Timelines"
        ELSE IF Has(text, "nominee") \/ Has(text, "account change") \/ Has(text, "profile")
             THEN "Account Changes/Nominee"
        ELSE None
      day_preference ==
        IF Has(text, "tomorrow") THEN "tomorrow"
        ELSE IF Has(text, "today") THEN "today"
        ELSE IF \E i \in 1..Len(WEEKDAYS) : Has(text, WEEKDAYS[i])
             THEN WEEKDAYS[CHOOSE i \in 1..Len(WEEKDAYS) :
                             /\ Has(text, WEEKDAYS[i])
                             /\ \A k \in 1..(i - 1) : ~Has(text, WEEKDAYS[k])]
        ELSE None
      time_preference ==
        IF Has(text, "morning") THEN "morning"
        ELSE IF Has(text, "afternoon") THEN "afternoon"
        ELSE IF Has(text, "evening") \/ Has(text, "night") THEN "evening"
        ELSE None
      intent0 ==
        IF HasAny(text, {"reschedule", "move my", "change my time", "change slot"})
          THEN "reschedule"
        ELSE IF HasAny(text, {"cancel", "call off", "delete booking"}) THEN "cancel"
        ELSE IF HasAny(text, {"prepare", "what should i bring", "what to prepare"})
          THEN "what_to_prepare"
        ELSE IF HasAny(text, {"availability", "available", "check availability", "any slots"})
          THEN "check_availability"
        ELSE IF HasAny(text, {"book", "appointment", "schedule"}) THEN "book_new"
        ELSE "other"
      gave_booking_fields ==
        Truthy(topic) \/ Truthy(day_preference) \/ Truthy(time_preference)
      intent1 ==
        IF intent0 \in {"other", "check_availability"} /\ gave_booking_fields
        THEN "book_new" ELSE intent0
      mid_booking == Truthy(S.topic) \/ Truthy(S.day_pref) \/ Truthy(S.time_pref)
      intent2 ==
        IF intent1 = "other" /\ mid_booking /\ gave_booking_fields
        THEN "book_new" ELSE intent1
  IN [intent |-> intent2, topic |-> topic,
      day_preference |-> day_preference, time_preference |-> time_preference]

\* a slip: an answer without a JSON object goes to the local parser
detect_intent_and_extract_parse_to_local(text, svc, S) ==
  IF Len(text) = 0 THEN _json_fallback
  ELSE IF svc.kind = "raise" THEN local_intent_fallback(text, S)
  ELSE LET obj == extract_first_json_object(svc)
       IN IF obj # <<>> /\ DOMAIN obj[1] # {} THEN obj[1]
          ELSE local_intent_fallback(text, S)

\* a slip: a service error gives the default result
detect_intent_and_extract_raise_to_default(text, svc, S) ==
  IF Len(text) = 0 THEN _json_fallback
  ELSE IF svc.kind = "raise" THEN _json_fallback
  ELSE LET obj == extract_first_json_object(svc)
       IN IF obj # <<>> /\ DOMAIN obj[1] # {} THEN obj[1] ELSE _json_fallback

\* detect_intent_and_extract(user_text); svc is what the service does when called
detect_intent_and_extract(text, svc, S) ==
  IF Len(text) = 0 THEN _json_fallback
  ELSE IF svc.kind = "raise" THEN local_intent_fallback(text, S)
  ELSE LET obj == extract_first_json_object(svc)
       IN IF obj # <<>> /\ DOMAIN obj[1] # {} THEN obj[1] ELSE _json_fallback

\* ------------------------------------------------------------------ slot selector

\* The keywords of mock_pick_two_slots that occur in tp.lower().
TimeSubstrings(tp) ==
  CASE tp = "evening"   -> {"even"}
    [] tp = "Evening"   -> {"even"}
    [] tp = "afternoon" -> {"after"}
    [] tp = "5pm"       -> {"5"}
    [] tp = "6 pm"      -> {"6"}
    [] tp = "3pm"       -> {"3"}
    [] tp = "4:30"      -> {"4", "3"}
    [] tp = "15:00"     -> {"5"}
    [] tp = "after 5"   -> {"after", "5"}
    [] OTHER            -> {}

\* (time_pref or "").lower() raises AttributeError for a truthy non-string
mock_pick_raises(time_pref) == Truthy(time_pref) /\ time_pref \in NonStrings

\* a slip: the last two candidates are returned
mock_pick_two_slots_last_two(day_pref, time_pref) ==
  LET tp == TimeSubstrings(IF Truthy(time_pref) THEN time_pref ELSE "")
      candidates ==
        IF "even" \in tp \/ "5" \in tp \/ "6" \in tp
          THEN << MOCK_SLOTS[4], MOCK_SLOTS[3], MOCK_SLOTS[2] >>
        ELSE IF "after" \in tp \/ "3" \in tp \/ "4" \in tp
          THEN << MOCK_SLOTS[3], MOCK_SLOTS[2], MOCK_SLOTS[4] >>
        ELSE << MOCK_SLOTS[1], MOCK_SLOTS[2], MOCK_SLOTS[3] >>
  IN SubSeq(candidates, 2, 3)

mock_pick_two_slots(day_pref, time_pref) ==
  LET tp == TimeSubstrings(IF Truthy(time_pref) THEN time_pref ELSE "")
      candidates ==
        IF "even" \in tp \/ "5" \in tp \/ "6" \in tp
          THEN << MOCK_SLOTS[4], MOCK_SLOTS[3], MOCK_SLOTS[2] >>
        ELSE IF "after" \in tp \/ "3" \in tp \/ "4" \in tp
          THEN << MOCK_SLOTS[3], MOCK_SLOTS[2], MOCK_SLOTS[4] >>
        ELSE << MOCK_SLOTS[1], MOCK_SLOTS[2], MOCK_SLOTS[3] >>
  IN SubSeq(candidates, 1, 2)

\* ------------------------------------------------------------------ replies

ReplyRepeat == << "Sorry, I didn't catch that. Please repeat." >>

ReplyPII(code) ==
  << "For security, please don't share personal details on this call." >>
    \o secure_link_for(code)

ReplyDisclaimer == << "Hi - this is the Advisor Appointment Scheduler." >>

ReplyNoAdvice == << "I can't provide investment advice or recommendations." >>

ReplyAskCode == << "Sure. Please tell me your booking code, for example NL-A742." >>

ReplyCancelled(code) ==
  << "Done. I've noted a cancellation request for booking code", code >>

ReplyRescheduleCode(code) == << "Got it. Booking code", code, TIMEZONE_LABEL >>

ReplyPrepare(topic) == << "For", topic, "here's what to prepare:" >>

ReplyPrepareWhich == << "Sure - which topic:" >>

ReplyAskTopic == << "Which topic is this for:" >>

ReplyAvailabilityDay == << "What day should I check for? For example tomorrow or Friday." >>

ReplyAvailabilityTime == << "What time preference in", TIMEZONE_LABEL >>

ReplyAvailability(topic, slots) ==
  << "For", topic, "I see two options in", TIMEZONE_LABEL,
     slots[1].start, slots[2].start >>

ReplyMenu == << "I can help you book, reschedule, cancel, check availability, or tell you what to prepare." >>

ReplyAskDay == << "What day works best for you?" >>

ReplyAskTime == << "Do you prefer morning, afternoon, or evening", TIMEZONE_LABEL >>

ReplyOffer(slots) ==
  << "I have two options in", TIMEZONE_LABEL, slots[1].start, slots[2].start,
     "Which option do you prefer, 1 or 2?" >>

ReplyWaitlist(topic, code) ==
  << "I don't see a matching slot right now.", topic, code >> \o secure_link_for(code)

ReplyOneOrTwo == << "Please say option 1 or option 2." >>

ReplyConfirm(topic, slot) ==
  << "Just to confirm in", TIMEZONE_LABEL, topic, slot.start,
     "Is that correct? Say yes or no." >>

ReplyBooked(code, slot, topic) ==
  << "Great. Your booking code is", code, slot.start, TIMEZONE_LABEL, topic >>
    \o secure_link_for(code)

ReplyReselect == << "No problem. Do you prefer option 1 or option 2?" >>

ReplyAllSet == << "All set. Do you need anything else?" >>

\* an exception leaves next_agent_reply: the endpoint answers with an error
ReplyError == << "Internal Server Error" >>

\* ------------------------------------------------------------------ state

InitialState ==
  [ disclaimer_done |-> FALSE,
    intent          |-> None,
    topic           |-> None,
    day_pref        |-> None,
    time_pref       |-> None,
    offered_slots   |-> <<>>,
    selected_slot   |-> <<>>,
    booking_code    |-> None,
    provided_code   |-> None ]

reset_booking_state(S) ==
  [S EXCEPT !.topic = None, !.day_pref = None, !.time_pref = None,
            !.offered_slots = <<>>, !.selected_slot = <<>>, !.booking_code = None]

reset_reschedule_cancel(S) == [S EXCEPT !.provided_code = None]

\* BOOKINGS[code] = rec
Put(B, code, rec) ==
  [c \in (DOMAIN B) \cup {code} |-> IF c = code THEN rec ELSE B[c]]

\* What one call of next_agent_reply leaves behind: the stores and the reply;
\* called tells whether detect_intent_and_extract was called, info what it returned.
Outcome(S, B, reply, called) ==
  [state |-> S, BOOKINGS |-> B, reply |-> reply, called |-> called, info |-> <<>>]

\* ------------------------------------------------------------------ the turn

\* any(k in lower for k in [...]): the text asks for investment advice
asks_advice(text) ==
  HasAny(text, {"buy", "sell", "invest", "stock", "mutual fund", "recommend"})

\* (info.get("intent") or "other") raises on .strip() when it is not a string
intent_raises(info) == Get(info, "intent") \in NonStrings

\* a slip: no sticky-flow override
effective_intent_not_sticky(S, info) ==
  IF Truthy(Get(info, "intent")) THEN Strip(Get(info, "intent")) ELSE "other"

\* a slip: the override looks at offered_slots only
effective_intent_offer_only(S, info) ==
  LET intent == IF Truthy(Get(info, "intent")) THEN Strip(Get(info, "intent"))
                ELSE "other"
  IN IF S.offered_slots # <<>> THEN "book_new" ELSE intent

\* a slip: the override ends when the booking is made
effective_intent_until_booked(S, info) ==
  LET intent == IF Truthy(Get(info, "intent")) THEN Strip(Get(info, "intent"))
                ELSE "other"
  IN IF (S.offered_slots # <<>> \/ Truthy(S.topic)) /\ ~Truthy(S.booking_code)
     THEN "book_new" ELSE intent

\* the intent the turn is dispatched on
effective_intent(S, info) ==
  LET intent == IF Truthy(Get(info, "intent")) THEN Strip(Get(info, "intent"))
                ELSE "other"
  IN IF S.offered_slots # <<>> \/ Truthy(S.topic) THEN "book_new" ELSE intent

\* a slip: the record takes the first offered slot
booking_record_first_offered(S) ==
  [topic |-> S.topic, slot |-> S.offered_slots[1], timezone |-> TIMEZONE_LABEL]

\* the record stored in BOOKINGS on confirmation
booking_record(S) ==
  [topic |-> S.topic, slot |-> S.selected_slot[1], timezone |-> TIMEZONE_LABEL]

\* waitlist_flow_reply(topic, day_pref, time_pref); gen is the generated code
waitlist_flow_reply(S, B, gen) ==
  LET code == IF Truthy(S.booking_code) THEN S.booking_code ELSE gen
  IN Outcome([S EXCEPT !.booking_code = code], B, ReplyWaitlist(S.topic, code), TRUE)

\* a slip: the offer is dropped instead of the selection
decline_selection_drops_offer(S) == [S EXCEPT !.offered_slots = <<>>]

\* the caller answered something other than yes to the confirmation
decline_selection(S) == [S EXCEPT !.selected_slot = <<>>]

\* a slip: the code is stored and handed out, the Booking is not created
confirm_booking_not_persisted(S, B, gen) ==
  LET S1 == [S EXCEPT !.booking_code = gen]
  IN Outcome(S1, B, ReplyBooked(gen, S1.selected_slot[1], S1.topic), TRUE)

\* the caller answered yes: the code is stored and the Booking is created
confirm_booking(S, B, gen) ==
  LET S1 == [S EXCEPT !.booking_code = gen]
  IN Outcome(S1, Put(B, gen, booking_record(S1)),
             ReplyBooked(gen, S1.selected_slot[1], S1.topic), TRUE)

\* a slip: a selection said together with yes is booked on the same turn
select_slot_confirms_on_yes(S, B, text) ==
  LET gen == CHOOSE c \in GeneratedCodes : TRUE
      chosen(S1) == IF Has(text, "yes") THEN confirm_booking(S1, B, gen)
                    ELSE Outcome(S1, B, ReplyConfirm(S1.topic, S1.selected_slot[1]), TRUE)
  IN IF Has(text, "1") \/ Has(text, "one")
       THEN chosen([S EXCEPT !.selected_slot = << S.offered_slots[1] >>])
     ELSE IF Has(text, "2") \/ Has(text, "two")
       THEN chosen([S EXCEPT !.selected_slot = << S.offered_slots[2] >>])
     ELSE Outcome(S, B, ReplyOneOrTwo, TRUE)

\* the caller chooses among the offered slots
select_slot(S, B, text) ==
  IF Has(text, "1") \/ Has(text, "one")
    THEN LET S1 == [S EXCEPT !.selected_slot = << S.offered_slots[1] >>]
         IN Outcome(S1, B, ReplyConfirm(S1.topic, S1.selected_slot[1]), TRUE)
  ELSE IF Has(text, "2") \/ Has(text, "two")
    THEN LET S1 == [S EXCEPT !.selected_slot = << S.offered_slots[2] >>]
         IN Outcome(S1, B, ReplyConfirm(S1.topic, S1.selected_slot[1]), TRUE)
  ELSE Outcome(S, B, ReplyOneOrTwo, TRUE)

\* the slots are picked and offered
offer_slots(S, B, gen) ==
  IF mock_pick_raises(S.time_pref) THEN Outcome(S, B, ReplyError, TRUE)
  ELSE LET slots == mock_pick_two_slots(S.day_pref, S.time_pref)
       IN IF Len(slots) < 2 THEN waitlist_flow_reply(S, B, gen)
          ELSE Outcome([S EXCEPT !.offered_slots = slots], B, ReplyOffer(slots), TRUE)

\* a slip: the selection is confirmed whatever the caller answers
book_from_slots_confirms_any(S, B, text, gen) ==
  IF S.offered_slots = <<>> THEN offer_slots(S, B, gen)
  ELSE IF S.selected_slot = <<>> THEN select_slot(S, B, text)
  ELSE IF ~Truthy(S.booking_code) THEN confirm_booking(S, B, gen)
  ELSE Outcome(S, B, ReplyAllSet, TRUE)

\* the book flow once topic, day_pref and time_pref are known
book_from_slots(S, B, text, gen) ==
  IF S.offered_slots = <<>> THEN offer_slots(S, B, gen)
  ELSE IF S.selected_slot = <<>> THEN select_slot(S, B, text)
  ELSE IF ~Truthy(S.booking_code)
    THEN IF Has(text, "yes") THEN confirm_booking(S, B, gen)
         ELSE Outcome(decline_selection(S), B, ReplyReselect, TRUE)
  ELSE Outcome(S, B, ReplyAllSet, TRUE)

\* a slip: the slots are offered on the turn after the one that gave the time
book_new_flow_asks_again(S, B, text, info, gen) ==
  LET topic     == Get(info, "topic")
      day_pref  == Get(info, "day_preference")
      time_pref == Get(info, "time_preference")
  IN
  IF ~Truthy(S.topic) /\ ~InTopics(topic) THEN Outcome(S, B, ReplyAskTopic, TRUE)
  ELSE
  LET S1 == IF ~Truthy(S.topic) THEN [S EXCEPT !.topic = topic] ELSE S IN
  IF ~Truthy(S1.day_pref) /\ ~Truthy(day_pref) THEN Outcome(S1, B, ReplyAskDay, TRUE)
  ELSE
  LET S2 == IF ~Truthy(S1.day_pref) THEN [S1 EXCEPT !.day_pref = day_pref] ELSE S1 IN
  IF ~Truthy(S2.time_pref) /\ ~Truthy(time_pref) THEN Outcome(S2, B, ReplyAskTime, TRUE)
  ELSE IF ~Truthy(S2.time_pref)
    THEN Outcome([S2 EXCEPT !.time_pref = time_pref], B, ReplyAskTime, TRUE)
  ELSE book_from_slots(S2, B, text, gen)

\* ---- BOOK NEW FLOW ----
book_new_flow(S, B, text, info, gen) ==
  LET topic     == Get(info, "topic")
      day_pref  == Get(info, "day_preference")
      time_pref == Get(info, "time_preference")
  IN
  IF ~Truthy(S.topic) /\ ~InTopics(topic) THEN Outcome(S, B, ReplyAskTopic, TRUE)
  ELSE
  LET S1 == IF ~Truthy(S.topic) THEN [S EXCEPT !.topic = topic] ELSE S IN
  IF ~Truthy(S1.day_pref) /\ ~Truthy(day_pref) THEN Outcome(S1, B, ReplyAskDay, TRUE)
  ELSE
  LET S2 == IF ~Truthy(S1.day_pref) THEN [S1 EXCEPT !.day_pref = day_pref] ELSE S1 IN
  IF ~Truthy(S2.time_pref) /\ ~Truthy(time_pref) THEN Outcome(S2, B, ReplyAskTime, TRUE)
  ELSE
  LET S3 == IF ~Truthy(S2.time_pref) THEN [S2 EXCEPT !.time_pref = time_pref] ELSE S2 IN
  book_from_slots(S3, B, text, gen)

\* a slip: the code stays on file after the cancellation
cancel_flow_keeps_code(S, B, text) ==
  LET found == extract_booking_code(text)
  IN IF ~Truthy(S.provided_code) /\ ~Truthy(found) THEN Outcome(S, B, ReplyAskCode, TRUE)
     ELSE LET S1   == IF ~Truthy(S.provided_code) THEN [S EXCEPT !.provided_code = found]
                      ELSE S
              code == S1.provided_code
          IN Outcome(reset_booking_state(S1), B, ReplyCancelled(code), TRUE)

\* Cancel
cancel_flow(S, B, text) ==
  LET found == extract_booking_code(text)
  IN IF ~Truthy(S.provided_code) /\ ~Truthy(found) THEN Outcome(S, B, ReplyAskCode, TRUE)
     ELSE LET S1   == IF ~Truthy(S.provided_code) THEN [S EXCEPT !.provided_code = found]
                      ELSE S
              code == S1.provided_code
          IN Outcome(reset_reschedule_cancel(reset_booking_state(S1)), B,
                     ReplyCancelled(code), TRUE)

\* What to prepare
prepare_flow(S, B, info) ==
  LET topic == Get(info, "topic")
  IN IF InTopics(topic) THEN Outcome(S, B, ReplyPrepare(topic), TRUE)
     ELSE Outcome(S, B, ReplyPrepareWhich, TRUE)

\* a slip: the topic asked about is kept as the topic of a booking
availability_flow_keeps_topic(S, B, info) ==
  LET topic     == Get(info, "topic")
      day_pref  == Get(info, "day_preference")
      time_pref == Get(info, "time_preference")
      S1        == [S EXCEPT !.topic = topic]
  IN IF ~InTopics(topic) THEN Outcome(S, B, ReplyAskTopic, TRUE)
     ELSE IF ~Truthy(day_pref) THEN Outcome(S1, B, ReplyAvailabilityDay, TRUE)
     ELSE IF ~Truthy(time_pref) THEN Outcome(S1, B, ReplyAvailabilityTime, TRUE)
     ELSE IF mock_pick_raises(time_pref) THEN Outcome(S1, B, ReplyError, TRUE)
     ELSE Outcome(S1, B, ReplyAvailability(topic, mock_pick_two_slots(day_pref, time_pref)),
                  TRUE)

\* Check availability
availability_flow(S, B, info) ==
  LET topic     == Get(info, "topic")
      day_pref  == Get(info, "day_preference")
      time_pref == Get(info, "time_preference")
  IN IF ~InTopics(topic) THEN Outcome(S, B, ReplyAskTopic, TRUE)
     ELSE IF ~Truthy(day_pref) THEN Outcome(S, B, ReplyAvailabilityDay, TRUE)
     ELSE IF ~Truthy(time_pref) THEN Outcome(S, B, ReplyAvailabilityTime, TRUE)
     ELSE IF mock_pick_raises(time_pref) THEN Outcome(S, B, ReplyError, TRUE)
     ELSE Outcome(S, B, ReplyAvailability(topic, mock_pick_two_slots(day_pref, time_pref)),
                  TRUE)

\* a slip: a reschedule that has just stored the code goes on into the book flow
dispatch_reschedule_goes_on(S, B, text, info, intent, gen) ==
  IF intent = "cancel" THEN cancel_flow(S, B, text)
  ELSE IF intent = "reschedule" /\ ~Truthy(S.provided_code)
            /\ ~Truthy(extract_booking_code(text))
    THEN Outcome(S, B, ReplyAskCode, TRUE)
  ELSE IF intent = "reschedule"
    THEN LET S1 == IF Truthy(S.provided_code) THEN S
                   ELSE reset_booking_state(
                          [S EXCEPT !.provided_code = extract_booking_code(text)])
         IN book_new_flow([S1 EXCEPT !.intent = "book_new"], B, text, info, gen)
  ELSE IF intent = "what_to_prepare" THEN prepare_flow(S, B, info)
  ELSE IF intent = "check_availability" THEN availability_flow(S, B, info)
  ELSE IF intent # "book_new"
    THEN IF Has(text, "book") \/ Has(text, "appointment") \/ Has(text, "slot")
           THEN book_new_flow([S EXCEPT !.intent = "book_new"], B, text, info, gen)
         ELSE Outcome(S, B, ReplyMenu, TRUE)
  ELSE book_new_flow(S, B, text, info, gen)

\* the dispatch on the intent, after STATE["intent"] = intent
dispatch(S, B, text, info, intent, gen) ==
  IF intent = "cancel" THEN cancel_flow(S, B, text)
  ELSE IF intent = "reschedule" /\ ~Truthy(S.provided_code)
    THEN LET code == extract_booking_code(text)
         IN IF Truthy(code)
              THEN Outcome(reset_booking_state([S EXCEPT !.provided_code = code]), B,
                           ReplyRescheduleCode(code), TRUE)
            ELSE Outcome(S, B, ReplyAskCode, TRUE)
  ELSE IF intent = "reschedule"
    THEN book_new_flow([S EXCEPT !.intent = "book_new"], B, text, info, gen)
  ELSE IF intent = "what_to_prepare" THEN prepare_flow(S, B, info)
  ELSE IF intent = "check_availability" THEN availability_flow(S, B, info)
  ELSE IF intent # "book_new"
    THEN IF Has(text, "book") \/ Has(text, "appointment") \/ Has(text, "slot")
           THEN book_new_flow([S EXCEPT !.intent = "book_new"], B, text, info, gen)
         ELSE Outcome(S, B, ReplyMenu, TRUE)
  ELSE book_new_flow(S, B, text, info, gen)

\* the turn from the extraction result on
after_extraction(S, B, text, info, gen) ==
  IF intent_raises(info) THEN Outcome(S, B, ReplyError, TRUE)
  ELSE LET intent == effective_intent(S, info)
       IN dispatch([S EXCEPT !.intent = intent], B, text, info, intent, gen)

\* the turn once the gates are passed: extraction, then the dispatch
extract_and_dispatch(S, B, text, svc, gen) ==
  LET info == detect_intent_and_extract(text, svc, S)
  IN [after_extraction(S, B, text, info, gen) EXCEPT !.info = << info >>]

\* the link of the PII warning carries the current code or a placeholder
pii_reply(S) == ReplyPII(IF Truthy(S.booking_code) THEN S.booking_code ELSE "NL-XXXX")

\* a slip: the turn that shows the disclaimer goes on to the extraction
next_agent_reply_disclaimer_falls_through(S, B, text, svc, gen) ==
  IF Len(text) = 0 THEN Outcome(S, B, ReplyRepeat, FALSE)
  ELSE IF contains_pii(text) THEN Outcome(S, B, pii_reply(S), FALSE)
  ELSE LET S1 == [S EXCEPT !.disclaimer_done = TRUE]
       IN IF asks_advice(text) THEN Outcome(S1, B, ReplyNoAdvice, FALSE)
          ELSE extract_and_dispatch(S1, B, text, svc, gen)

\* a slip: the disclaimer gate stands before the PII guard
next_agent_reply_disclaimer_first(S, B, text, svc, gen) ==
  IF Len(text) = 0 THEN Outcome(S, B, ReplyRepeat, FALSE)
  ELSE IF ~S.disclaimer_done
    THEN Outcome([S EXCEPT !.disclaimer_done = TRUE], B, ReplyDisclaimer, FALSE)
  ELSE IF contains_pii(text) THEN Outcome(S, B, pii_reply(S), FALSE)
  ELSE IF asks_advice(text) THEN Outcome(S, B, ReplyNoAdvice, FALSE)
  ELSE extract_and_dispatch(S, B, text, svc, gen)

\* a slip: the advice gate stands before the disclaimer gate
next_agent_reply_advice_first(S, B, text, svc, gen) ==
  IF Len(text) = 0 THEN Outcome(S, B, ReplyRepeat, FALSE)
  ELSE IF contains_pii(text) THEN Outcome(S, B, pii_reply(S), FALSE)
  ELSE IF asks_advice(text) THEN Outcome(S, B, ReplyNoAdvice, FALSE)
  ELSE IF ~S.disclaimer_done
    THEN Outcome([S EXCEPT !.disclaimer_done = TRUE], B, ReplyDisclaimer, FALSE)
  ELSE extract_and_dispatch(S, B, text, svc, gen)

\* next_agent_reply(user_text): svc is what the extraction service does if it
\* is called, gen the code generate_booking_code() returns if it is called
next_agent_reply(S, B, text, svc, gen) ==
  IF Len(text) = 0 THEN Outcome(S, B, ReplyRepeat, FALSE)
  ELSE IF contains_pii(text) THEN Outcome(S, B, pii_reply(S), FALSE)
  ELSE IF ~S.disclaimer_done
    THEN Outcome([S EXCEPT !.disclaimer_done = TRUE], B, ReplyDisclaimer, FALSE)
  ELSE IF asks_advice(text) THEN Outcome(S, B, ReplyNoAdvice, FALSE)
  ELSE extract_and_dispatch(S, B, text, svc, gen)

\* ------------------------------------------------------------------ inputs

\* The topic, day and time the service may put into its JSON object: each
\* field absent or present, a topic outside TOPICS, a time that is a number.
ServiceSlots ==
  { [topic |-> None,             day_preference |-> None,       time_preference |-> None],
    [topic |-> "KYC/Onboarding", day_preference |-> None,       time_preference |-> None],
    [topic |-> "KYC/Onboarding", day_preference |-> "tomorrow", time_preference |-> None],
    [topic |-> "KYC/Onboarding", day_preference |-> None,       time_preference |-> "morning"],
    [topic |-> "KYC/Onboarding", day_preference |-> "tomorrow", time_preference |-> "morning"],
    [topic |-> "KYC/Onboarding", day_preference |-> "tomorrow", time_preference |-> "#17"],
    [topic |-> None,             day_preference |-> "tomorrow", time_preference |-> "morning"],
    [topic |-> "Loans",          day_preference |-> "tomorrow", time_preference |-> "morning"] }

\* The intents it may name together with such fields,
ServiceIntents == { "book_new", "what_to_prepare", "check_availability", "other" }

\* and the intents it names with null fields, a padded string, null and a
\* number among them.
ServiceBareIntents == { "cancel", " cancel ", "reschedule", None, "#7" }

\* the JSON object with the four keys
JsonObject(intent, slots) ==
  [ intent |-> intent, topic |-> slots.topic,
    day_preference |-> slots.day_preference, time_preference |-> slots.time_preference ]

NoSlots == [topic |-> None, day_preference |-> None, time_preference |-> None]

\* The JSON objects the service may answer with, {} among them.
ServiceObjects ==
  { JsonObject(i, sl) : i \in ServiceIntents, sl \in ServiceSlots }
    \cup { JsonObject(i, NoSlots) : i \in ServiceBareIntents }
    \cup { JsonObject("reschedule", [topic |-> "KYC/Onboarding",
                                     day_preference |-> "tomorrow",
                                     time_preference |-> "morning"]) }
    \cup { <<>> }

\* What the service may do on one call.
ServiceOutcomes ==
  { [kind |-> k, obj |-> <<>>] : k \in {"raise", "empty", "prose", "malformed"} }
    \cup [ kind : {"object"}, obj : ServiceObjects ]
    \cup { [kind |-> "fenced", obj |-> JsonObject("cancel", NoSlots)] }

\* the service is not called
NoCall == [kind |-> "", obj |-> <<>>]

\* the outcomes of the service on a turn: none on a turn that does not call it
ServiceOn(S, B, text) ==
  IF next_agent_reply(S, B, text, NoCall, None).called THEN ServiceOutcomes
  ELSE { NoCall }

\* generate_booking_code() is called on a confirmation and on the waitlist
\* path; on any other turn no code is drawn and the first stands for "none"
CodesOn(S, text) ==
  IF \/ S.selected_slot # <<>> /\ ~Truthy(S.booking_code) /\ Has(text, "yes")
     \/ S.offered_slots = <<>> /\ Truthy(S.booking_code)
  THEN GeneratedCodes
  ELSE { CHOOSE c \in GeneratedCodes : TRUE }

\* ------------------------------------------------------------------ secure details

\* the three MCP payloads built from the Booking record and the contact
mcp_payloads(booking, booking_code, email, phone, notes) ==
  [ calendar_hold |->
      [ action |-> "calendar.create_hold",
        title |-> << "Advisor Q&A", booking.topic, booking_code >>,
        start |-> booking.slot.start,
        timezone |-> TIMEZONE_LABEL,
        status |-> "tentative" ],
    notes_append |->
      [ action |-> "notes.append",
        doc |-> "Advisor Pre-Bookings",
        entry |-> [ date |-> booking.slot.start,
                    topic |-> booking.topic,
                    slot_id |-> booking.slot.slot_id,
                    code |-> booking_code,
                    contact_email |-> email ] ],
    email_draft |->
      [ action |-> "email.create_draft",
        approval_required |-> TRUE,
        to |-> "advisor-team@example.com",
        subject |-> << "Pre-booking request", booking.topic, booking_code >>,
        body |-> << booking_code, booking.topic, booking.slot.start, email,
                    IF Truthy(phone) THEN phone ELSE "Not provided",
                    IF Truthy(notes) THEN notes ELSE "-" >> ] ]

\* POST /api/secure-details on the store D and the Bookings B: the store it
\* leaves and the body it returns
secure_details(D, B, payload) ==
  LET booking_code == Get(payload, "booking_code")
      email        == Get(payload, "email")
      phone        == Get(payload, "phone")
      notes        == Get(payload, "notes")
  IN IF ~Truthy(booking_code) \/ ~Truthy(email)
     THEN [ store |-> D,
            response |-> [error |-> << "booking_code and email are required" >>] ]
     ELSE LET D1 == Put(D, booking_code,
                        [email |-> email, phone |-> phone, notes |-> notes])
          IN IF booking_code \notin DOMAIN B
             THEN [ store |-> D1,
                    response |-> [error |-> << "Unknown booking_code: ", booking_code,
                                            ". Please use the code provided by the agent." >>] ]
             ELSE [ store |-> D1,
                    response |-> [ ok |-> TRUE,
                                   mcp |-> mcp_payloads(B[booking_code], booking_code,
                                                        email, phone, notes) ] ]

\* ------------------------------------------------------------------ state machine

VARIABLES
  state,      \* STATE, the conversation state
  BOOKINGS,   \* the Booking store: booking code -> record
  SECURE_DETAILS_STORE, \* the secure-contact store: booking code -> contact
  request,    \* the turn in flight: <<>> or <<user_text>>
  reply,      \* the reply_text in flight to the caller: <<>> if none
  service,    \* what the service did on the turn answered: "" if it was not called
  extraction, \* what detect_intent_and_extract returned on it: <<>> or <<info>>
  call,       \* a function called on its own: <<>> or its arguments
  result,     \* what the call returned: <<>> or <<value>>
  answers     \* <<>>, or <<n>> once the caller only answers the questions:
              \* n such turns were taken

vars ==
  << state, BOOKINGS, SECURE_DETAILS_STORE, request, reply, service, extraction,
     call, result, answers >>

Init ==
  /\ state = InitialState
  /\ BOOKINGS = <<>>
  /\ SECURE_DETAILS_STORE = <<>>
  /\ request = <<>>
  /\ reply = <<>>
  /\ service = ""
  /\ extraction = <<>>
  /\ call = <<>>
  /\ result = <<>>
  /\ answers = <<>>

\* POST /api/text-turn arrives with payload.text, stripped
Request ==
  /\ request = <<>>
  /\ reply = <<>>
  /\ \E text \in Texts : request' = << text >>
  /\ UNCHANGED << state, BOOKINGS, SECURE_DETAILS_STORE, reply, service, extraction, call, result, answers >>

\* text_turn runs next_agent_reply on the text and returns the reply
text_turn ==
  /\ request # <<>>
  /\ reply = <<>>
  /\ \E svc \in ServiceOn(state, BOOKINGS, request[1]) : \E gen \in CodesOn(state, request[1]) :
     \E out \in { next_agent_reply(state, BOOKINGS, request[1], svc, gen) } :
          /\ state' = out.state
          /\ BOOKINGS' = out.BOOKINGS
          /\ reply' = out.reply
          /\ service' = IF out.called THEN svc.kind ELSE ""
          /\ extraction' = out.info
  /\ request' = <<>>
  /\ UNCHANGED << SECURE_DETAILS_STORE, call, result, answers >>

\* the caller receives {transcript, reply_text}
Respond ==
  /\ reply # <<>>
  /\ reply' = <<>>
  /\ service' = ""
  /\ extraction' = <<>>
  /\ UNCHANGED << state, BOOKINGS, SECURE_DETAILS_STORE, request, call, result, answers >>

Next == Request \/ text_turn \/ Respond

Spec == Init /\ [][Next]_vars

\* ---- the slot selector called on its own

\* the day preferences and the time preferences it is called with: None, the
\* empty string and strings
DayPrefs == { None, "", "today", "tomorrow", "monday", "friday" }

TimePrefs ==
  { None, "", "morning", "evening", "Evening", "afternoon", "night", "noon",
    "5pm", "6 pm", "3pm", "4:30", "15:00", "after 5" }

InitSelector ==
  /\ state = InitialState
  /\ BOOKINGS = <<>>
  /\ SECURE_DETAILS_STORE = <<>>
  /\ request = <<>>
  /\ reply = <<>>
  /\ service = ""
  /\ extraction = <<>>
  /\ call \in DayPrefs \X TimePrefs
  /\ result = <<>>
  /\ answers = <<>>

\* slots = mock_pick_two_slots(day_pref, time_pref)
pick_two_slots ==
  /\ result = <<>>
  /\ result' = << mock_pick_two_slots(call[1], call[2]) >>
  /\ UNCHANGED << state, BOOKINGS, SECURE_DETAILS_STORE, request, reply, service, extraction, call, answers >>

NextSelector == pick_two_slots

SpecSelector == InitSelector /\ [][NextSelector]_vars

\* ---- the Local Fallback Parser called on its own

\* the words of the texts it is called with: topics, days, times, the words of
\* each intent, a word it knows nothing of
ParserVocabulary ==
  { "kyc", "nominee", "tomorrow", "friday", "morning", "evening",
    "reschedule", "cancel", "prepare", "available", "book", "hello", "1" }

ParserTexts == UNION { [1..n -> ParserVocabulary] : n \in 0..MaxLen }

\* STATE at the call: before a booking is started, and in the middle of one
ParserStates ==
  { InitialState,
    [InitialState EXCEPT !.disclaimer_done = TRUE, !.topic = "KYC/Onboarding"] }

InitParser ==
  /\ state = InitialState
  /\ BOOKINGS = <<>>
  /\ SECURE_DETAILS_STORE = <<>>
  /\ request = <<>>
  /\ reply = <<>>
  /\ service = ""
  /\ extraction = <<>>
  /\ call \in ParserTexts \X ParserStates
  /\ result = <<>>
  /\ answers = <<>>

\* fb = local_intent_fallback(user_text)
parse_locally ==
  /\ result = <<>>
  /\ result' = << local_intent_fallback(call[1], call[2]) >>
  /\ UNCHANGED << state, BOOKINGS, SECURE_DETAILS_STORE, request, reply, service, extraction, call, answers >>

NextParser == parse_locally

SpecParser == InitParser /\ [][NextParser]_vars

\* ---- a caller who, from some turn on, only answers the engine's questions,
\* ---- while the extraction service is down

\* the turns such a caller is followed for
MaxAnswers == 5

\* the service raises on every call
ServiceDown == [kind |-> "raise", obj |-> <<>>]

\* the clean answers to what the book flow asks next in state S: a topic
\* keyword, a day word, a time word, "1" or "2", "yes"
CleanAnswers(S) ==
  IF ~Truthy(S.topic) THEN { << "kyc" >> }
  ELSE IF ~Truthy(S.day_pref) THEN { << "tomorrow" >> }
  ELSE IF ~Truthy(S.time_pref) THEN { << "evening" >> }
  ELSE IF S.offered_slots = <<>> THEN { << "evening" >>, << "1" >>, << "2" >> }
  ELSE IF S.selected_slot = <<>> THEN { << "1" >>, << "2" >> }
  ELSE { << "yes" >> }

\* the turns before: any text, any behaviour of the service
AnyRequest == answers = <<>> /\ Request

AnyTurn == answers = <<>> /\ text_turn

\* from here on the caller answers the questions
StartAnswering ==
  /\ answers = <<>>
  /\ request = <<>>
  /\ reply = <<>>
  /\ state.disclaimer_done
  /\ ~Truthy(state.booking_code)
  /\ answers' = << 0 >>
  /\ UNCHANGED << state, BOOKINGS, SECURE_DETAILS_STORE, request, reply, service, extraction, call, result >>

AnswerRequest ==
  /\ answers # <<>>
  /\ answers[1] < MaxAnswers
  /\ request = <<>>
  /\ reply = <<>>
  /\ ~Truthy(state.booking_code)
  /\ \E text \in CleanAnswers(state) : request' = << text >>
  /\ UNCHANGED << state, BOOKINGS, SECURE_DETAILS_STORE, reply, service, extraction, call, result, answers >>

\* text_turn with the service down
AnswerTurn ==
  /\ answers # <<>>
  /\ request # <<>>
  /\ reply = <<>>
  /\ \E gen \in CodesOn(state, request[1]) :
     \E out \in { next_agent_reply(state, BOOKINGS, request[1], ServiceDown, gen) } :
          /\ state' = out.state
          /\ BOOKINGS' = out.BOOKINGS
          /\ reply' = out.reply
          /\ service' = IF out.called THEN ServiceDown.kind ELSE ""
          /\ extraction' = out.info
  /\ request' = <<>>
  /\ answers' = << answers[1] + 1 >>
  /\ UNCHANGED << SECURE_DETAILS_STORE, call, result >>

NextAnswering ==
  AnyRequest \/ AnyTurn \/ Respond \/ StartAnswering \/ AnswerRequest \/ AnswerTurn

SpecAnswering == Init /\ [][NextAnswering]_vars

\* ---- a caller who is asked for the booking code on a cancel turn and answers
\* ---- with the code alone, while the extraction service is down

\* the texts that are one booking-code literal and nothing else
CodeTexts == { << w >> : w \in { v \in Vocabulary : Truthy(CodeOfWord(v)) } }

\* the cancel flow found no code and its question is in flight to the caller
CancelAsked ==
  /\ answers = <<>>
  /\ reply = ReplyAskCode
  /\ state.intent = "cancel"
  /\ answers' = << 0 >>
  /\ UNCHANGED << state, BOOKINGS, SECURE_DETAILS_STORE, request, reply, service, extraction, call, result >>

\* the following turn arrives: the code and nothing else
CodeRequest ==
  /\ answers = << 0 >>
  /\ request = <<>>
  /\ reply = <<>>
  /\ \E text \in CodeTexts : request' = << text >>
  /\ UNCHANGED << state, BOOKINGS, SECURE_DETAILS_STORE, reply, service, extraction, call, result, answers >>

NextCancelling ==
  AnyRequest \/ AnyTurn \/ Respond \/ CancelAsked \/ CodeRequest \/ AnswerTurn

SpecCancelling == Init /\ [][NextCancelling]_vars

\* ---- the secure page posts contact details while a caller books

\* the fields of a payload: missing, empty, given
PayloadCodes == { None, "" } \cup GeneratedCodes

PayloadEmails == { None, "", "caller@example.com" }

PayloadPhones == { None, "+91 98765 43210" }

PayloadNotes == { None }

Payloads ==
  [ booking_code : PayloadCodes, email : PayloadEmails,
    phone : PayloadPhones, notes : PayloadNotes ]

\* a turn of the caller who books: a clean answer to the next question
CallerRequest ==
  /\ request = <<>>
  /\ reply = <<>>
  /\ \E text \in CleanAnswers(state) : request' = << text >>
  /\ UNCHANGED << state, BOOKINGS, SECURE_DETAILS_STORE, reply, service, extraction, call, result, answers >>

\* POST /api/secure-details arrives and is answered
SecureDetails ==
  /\ \E payload \in Payloads :
     \E out \in { secure_details(SECURE_DETAILS_STORE, BOOKINGS, payload) } :
          /\ call' = << payload >>
          /\ SECURE_DETAILS_STORE' = out.store
          /\ result' = << out.response >>
  /\ UNCHANGED << state, BOOKINGS, request, reply, service, extraction, answers >>

NextDetails == CallerRequest \/ text_turn \/ Respond \/ SecureDetails

SpecDetails == Init /\ [][NextDetails]_vars

\* ------------------------------------------------------------------ properties

\* a step of text_turn: the turn in flight is answered; its text is request[1]
TurnStep == request # <<>> /\ request' = <<>>

\* the six fields of the booking sub-state are null
BookingNull(S) ==
  /\ ~Truthy(S.topic) /\ ~Truthy(S.day_pref) /\ ~Truthy(S.time_pref)
  /\ S.offered_slots = <<>> /\ S.selected_slot = <<>> /\ ~Truthy(S.booking_code)

\* the first words of the replies of the book flow past the topic question
BookFlowReplies ==
  { ReplyAskDay[1], ReplyAskTime[1], ReplyOffer(MOCK_SLOTS)[1], ReplyOneOrTwo[1],
    ReplyConfirm(None, MOCK_SLOTS[1])[1], ReplyBooked(None, MOCK_SLOTS[1], None)[1],
    ReplyReselect[1], ReplyAllSet[1], ReplyWaitlist(None, None)[1] }

\* C1: in every reachable state the booking sub-state is filled in the order
\* topic, day_pref, time_pref, offered_slots, selected_slot, booking_code: no
\* field is non-null while an earlier one is null.
C1_FilledInOrder ==
  /\ Truthy(state.day_pref) => Truthy(state.topic)
  /\ Truthy(state.time_pref) => Truthy(state.day_pref)
  /\ state.offered_slots # <<>> => Truthy(state.time_pref)
  /\ state.selected_slot # <<>> => state.offered_slots # <<>>
  /\ Truthy(state.booking_code) => state.selected_slot # <<>>

\* a selection was declined after the offer: the offer is kept, the selection null
C1_Witness ==
  /\ reply = ReplyReselect
  /\ state.offered_slots # <<>>
  /\ state.selected_slot = <<>>

\* C2: once topic or offered_slots is non-null, every turn that reaches the
\* dispatch is dispatched as book_new, whatever intent the extractor returned:
\* STATE.intent is book_new after it and the reply is one of the book flow.
C2_StickyFlow ==
  [][ ( /\ TurnStep
        /\ (state.offered_slots # <<>> \/ Truthy(state.topic))
        /\ extraction' # <<>> )
      => /\ state'.intent = "book_new"
         /\ (reply'[1] \in BookFlowReplies \/ reply' = ReplyError) ]_vars

\* the extractor said cancel in a started booking and the turn stayed in the book flow
C2_Witness ==
  /\ extraction # <<>>
  /\ Get(extraction[1], "intent") = "cancel"
  /\ service = "object"
  /\ Truthy(state.topic)
  /\ state.intent = "book_new"
  /\ reply = ReplyAskDay

\* C3: once topic is non-null, no step sets topic, day_pref, time_pref or
\* offered_slots back to null.
C3_NeverReset ==
  [][ Truthy(state.topic)
      => /\ Truthy(state'.topic)
         /\ Truthy(state.day_pref) => Truthy(state'.day_pref)
         /\ Truthy(state.time_pref) => Truthy(state'.time_pref)
         /\ state.offered_slots # <<>> => state'.offered_slots # <<>> ]_vars

\* the fallback parser read cancel while slots were on offer: the offer stands
C3_Witness ==
  /\ service = "raise"
  /\ extraction # <<>>
  /\ Get(extraction[1], "intent") = "cancel"
  /\ state.offered_slots # <<>>
  /\ Truthy(state.provided_code) = FALSE
  /\ reply = ReplyOneOrTwo

\* C4: a turn whose text triggers the PII guard does not call the extraction
\* and leaves every field of the conversation state and the Booking store as
\* they were.
C4_PiiTurnChangesNothing ==
  [][ (TurnStep /\ contains_pii(request[1]))
      => /\ state' = state
         /\ BOOKINGS' = BOOKINGS
         /\ extraction' = <<>>
         /\ service' = ""
         /\ reply' = pii_reply(state) ]_vars

\* the PII warning was given before the disclaimer
C4_Witness ==
  /\ reply = ReplyPII("NL-XXXX")
  /\ ~state.disclaimer_done

\* C5 as stated: the first turn, with any text, gives the disclaimer reply,
\* sets disclaimer_done and changes nothing else.
C5_AnyFirstTurnDisclaims ==
  [][ (TurnStep /\ ~state.disclaimer_done)
      => /\ reply' = ReplyDisclaimer
         /\ state' = [state EXCEPT !.disclaimer_done = TRUE]
         /\ BOOKINGS' = BOOKINGS ]_vars

\* C5 amended: a turn taken before the disclaimer was shown, with a text that
\* is not empty and does not trigger the PII guard, gives the disclaimer
\* reply, sets disclaimer_done and changes nothing else; the extraction is
\* not called.
C5_CleanFirstTurnDisclaims ==
  [][ (TurnStep /\ ~state.disclaimer_done
         /\ Len(request[1]) > 0 /\ ~contains_pii(request[1]))
      => /\ reply' = ReplyDisclaimer
         /\ state' = [state EXCEPT !.disclaimer_done = TRUE]
         /\ BOOKINGS' = BOOKINGS
         /\ extraction' = <<>> ]_vars

\* the disclaimer was just given
C5_Witness ==
  /\ reply = ReplyDisclaimer
  /\ state = [InitialState EXCEPT !.disclaimer_done = TRUE]

\* the service answered, and its answer holds no JSON object that parses
NoObjectAnswers == { "empty", "prose", "malformed" }

C7_RaiseIsLocalParse ==
  [][ (TurnStep /\ service' = "raise")
      => \E gen \in CodesOn(state, request[1]) :
           \E ref \in { after_extraction(state, BOOKINGS, request[1],
                          local_intent_fallback(request[1], state), gen) } :
             /\ state' = ref.state
             /\ BOOKINGS' = ref.BOOKINGS
             /\ reply' = ref.reply
             /\ extraction' = << local_intent_fallback(request[1], state) >> ]_vars

\* the service raised and the local parser read the topic out of the text
C7_Witness ==
  /\ service = "raise"
  /\ state.topic = "KYC/Onboarding"
  /\ state.intent = "book_new"
  /\ reply = ReplyAskDay

\* the turn reached the dispatch and was dispatched as cancel
CancelTurn ==
  /\ TurnStep
  /\ extraction' # <<>>
  /\ ~intent_raises(extraction'[1])
  /\ effective_intent(state, extraction'[1]) = "cancel"

\* C8 as stated: after the disclaimer and with the booking sub-state null, a
\* cancel turn whose text holds a booking code C confirms the cancellation of
\* C and leaves the booking sub-state and provided_code null.
C8_CancelConfirmsCodeOfText ==
  [][ ( /\ CancelTurn
        /\ state.disclaimer_done
        /\ BookingNull(state)
        /\ Truthy(extract_booking_code(request[1])) )
      => /\ reply' = ReplyCancelled(extract_booking_code(request[1]))
         /\ BookingNull(state')
         /\ ~Truthy(state'.provided_code) ]_vars

\* C8 amended: the same, when no provided_code is on file from an earlier
\* reschedule turn.
C8_CancelConfirmsCodeOfTextIfNoneOnFile ==
  [][ ( /\ CancelTurn
        /\ state.disclaimer_done
        /\ BookingNull(state)
        /\ ~Truthy(state.provided_code)
        /\ Truthy(extract_booking_code(request[1])) )
      => /\ reply' = ReplyCancelled(extract_booking_code(request[1]))
         /\ BookingNull(state')
         /\ ~Truthy(state'.provided_code) ]_vars

\* a cancellation was confirmed for the code said in lower case
C8_Witness ==
  /\ reply = ReplyCancelled("NL-B1C3")
  /\ state.intent = "cancel"
  /\ BookingNull(state)
  /\ ~Truthy(state.provided_code)

\* C9: whenever booking_code is non-null, BOOKINGS holds a record under it
\* with the topic of the state, the selected slot, which is one of the two
\* offered, and the fixed timezone label.
C9_BookingMatchesState ==
  Truthy(state.booking_code)
    => /\ state.booking_code \in DOMAIN BOOKINGS
       /\ state.selected_slot # <<>>
       /\ state.selected_slot[1] \in { state.offered_slots[1], state.offered_slots[2] }
       /\ BOOKINGS[state.booking_code] =
            [ topic    |-> state.topic,
              slot     |-> state.selected_slot[1],
              timezone |-> TIMEZONE_LABEL ]

\* the caller chose option 2 and confirmed: the record holds the second offered slot
C9_Witness ==
  /\ Truthy(state.booking_code)
  /\ state.booking_code \in DOMAIN BOOKINGS
  /\ BOOKINGS[state.booking_code].slot = state.offered_slots[2]
  /\ reply = ReplyBooked(state.booking_code, state.offered_slots[2], state.topic)

\* C10: BOOKINGS changes only on a turn taken with selected_slot non-null and
\* booking_code null whose text contains "yes"; the turn adds one record under
\* a new code and leaves every record there as it was; a turn that reports a
\* booking adds exactly one.
C10_CreatedOnceNeverChanged ==
  [][ /\ BOOKINGS' # BOOKINGS
        => /\ TurnStep
           /\ state.selected_slot # <<>>
           /\ ~Truthy(state.booking_code)
           /\ Has(request[1], "yes")
           /\ state'.booking_code \notin DOMAIN BOOKINGS
           /\ DOMAIN BOOKINGS' = DOMAIN BOOKINGS \cup { state'.booking_code }
           /\ \A c \in DOMAIN BOOKINGS : BOOKINGS'[c] = BOOKINGS[c]
      /\ (TurnStep /\ reply'[1] = ReplyBooked(None, MOCK_SLOTS[1], None)[1])
        => Cardinality(DOMAIN BOOKINGS') = Cardinality(DOMAIN BOOKINGS) + 1 ]_vars

\* a booking was made and a later turn left it as it was
C10_Witness ==
  /\ Cardinality(DOMAIN BOOKINGS) = 1
  /\ Truthy(state.booking_code)
  /\ reply = ReplyAllSet

\* the keywords of the evening bucket and of the afternoon bucket
EveningLike == { "even", "5", "6" }

AfternoonLike == { "after", "3", "4" }

\* C11: for every day preference and every time preference that is None or a
\* string, mock_pick_two_slots returns two distinct slots of MOCK_SLOTS, set by
\* the bucket of the time preference alone: slot 4 and slot 3 if it holds an
\* evening keyword, else slot 3 and slot 2 if it holds an afternoon keyword,
\* else slot 1 and slot 2.
C11_PairByTimeBucket ==
  result # <<>>
    => /\ Len(result[1]) = 2
       /\ result[1][1] # result[1][2]
       /\ \A i \in 1..2 : \E k \in 1..Len(MOCK_SLOTS) : result[1][i] = MOCK_SLOTS[k]
       /\ result[1] =
            IF TimeSubstrings(call[2]) \cap EveningLike # {}
              THEN << MOCK_SLOTS[4], MOCK_SLOTS[3] >>
            ELSE IF TimeSubstrings(call[2]) \cap AfternoonLike # {}
              THEN << MOCK_SLOTS[3], MOCK_SLOTS[2] >>
            ELSE << MOCK_SLOTS[1], MOCK_SLOTS[2] >>

\* a time preference with an afternoon and an evening keyword gave the evening pair
C11_Witness ==
  /\ call = << "friday", "after 5" >>
  /\ result = << << MOCK_SLOTS[4], MOCK_SLOTS[3] >> >>

\* the words by which a text asks for a reschedule, a cancellation, what to prepare
RescheduleWords == { "reschedule", "move my", "change my time", "change slot" }

CancelWords == { "cancel", "call off", "delete booking" }

PrepareWords == { "prepare", "what should i bring", "what to prepare" }

\* C12: for every text, if it holds no reschedule, cancel or prepare word (the
\* keyword rules infer other, check_availability or book_new) and a topic, a
\* day or a time is extracted, local_intent_fallback returns book_new; a text
\* with a reschedule word gives reschedule, else with a cancel word cancel,
\* else with a prepare word what_to_prepare, whatever fields it holds.
C12_FieldsEscalateToBook ==
  result # <<>>
    => LET text == call[1]
           r    == result[1]
           gave == Truthy(r.topic) \/ Truthy(r.day_preference) \/ Truthy(r.time_preference)
       IN /\ HasAny(text, RescheduleWords) => r.intent = "reschedule"
          /\ (~HasAny(text, RescheduleWords) /\ HasAny(text, CancelWords))
               => r.intent = "cancel"
          /\ (~HasAny(text, RescheduleWords \cup CancelWords) /\ HasAny(text, PrepareWords))
               => r.intent = "what_to_prepare"
          /\ (~HasAny(text, RescheduleWords \cup CancelWords \cup PrepareWords) /\ gave)
               => r.intent = "book_new"

\* a question about availability that names a day came back as book_new
C12_Witness ==
  /\ call[1] = << "available", "tomorrow" >>
  /\ result # <<>>
  /\ result[1].intent = "book_new"
  /\ result[1].day_preference = "tomorrow"

\* the extraction result names book_new with a topic of TOPICS, a day and a
\* time preference that is a string
FullBookingRequest(info) ==
  /\ ~intent_raises(info)
  /\ Truthy(Get(info, "intent"))
  /\ Strip(Get(info, "intent")) = "book_new"
  /\ InTopics(Get(info, "topic"))
  /\ Truthy(Get(info, "day_preference"))
  /\ Truthy(Get(info, "time_preference"))
  /\ Get(info, "time_preference") \notin NonStrings

\* C13: after the disclaimer and with the booking sub-state null, a turn whose
\* extraction result, of the service or of the local parser, is book_new with
\* a valid topic, a day and a time sets topic, day_pref and time_pref, stores
\* the pair mock_pick_two_slots gives for the time in offered_slots (slot 1 and
\* slot 2 for morning) and offers it in the reply; nothing is selected or booked.
C13_OneTurnToOffer ==
  [][ ( /\ TurnStep
        /\ state.disclaimer_done
        /\ BookingNull(state)
        /\ extraction' # <<>>
        /\ FullBookingRequest(extraction'[1]) )
      => /\ state'.topic = extraction'[1].topic
         /\ state'.day_pref = extraction'[1].day_preference
         /\ state'.time_pref = extraction'[1].time_preference
         /\ state'.offered_slots =
              mock_pick_two_slots(state'.day_pref, state'.time_pref)
         /\ (state'.time_pref = "morning"
               => state'.offered_slots = << MOCK_SLOTS[1], MOCK_SLOTS[2] >>)
         /\ reply' = ReplyOffer(state'.offered_slots)
         /\ state'.selected_slot = <<>>
         /\ ~Truthy(state'.booking_code)
         /\ BOOKINGS' = BOOKINGS ]_vars

\* the service raised, the local parser read topic, day and time out of one
\* text and the two evening slots were offered
C13_Witness ==
  /\ service = "raise"
  /\ extraction # <<>>
  /\ FullBookingRequest(extraction[1])
  /\ state.topic = "KYC/Onboarding"
  /\ state.day_pref = "tomorrow"
  /\ state.time_pref = "evening"
  /\ state.offered_slots = << MOCK_SLOTS[4], MOCK_SLOTS[3] >>
  /\ reply = ReplyOffer(<< MOCK_SLOTS[4], MOCK_SLOTS[3] >>)
  /\ state.selected_slot = <<>>

\* C14: the extraction is called only on a turn whose text is not empty,
\* passes the PII guard, comes after the disclaimer was shown and holds no
\* advice keyword, and a turn that fails right after the extraction leaves the
\* state as the turn found it; a turn stopped at the empty-text, PII or advice
\* gate changes no field of the state.
C14_GatesBeforeExtraction ==
  [][ TurnStep
      => IF extraction' # <<>> \/ service' # ""
         THEN /\ Len(request[1]) > 0
              /\ state.disclaimer_done
              /\ extraction' # <<>>
              /\ service' # ""
              /\ intent_raises(extraction'[1]) => state' = state
              /\ ~contains_pii(request[1])
              /\ ~asks_advice(request[1])
         ELSE ( \/ Len(request[1]) = 0
                \/ contains_pii(request[1])
                \/ (state.disclaimer_done /\ asks_advice(request[1])) )
                => /\ state' = state
                   /\ BOOKINGS' = BOOKINGS ]_vars

\* the extraction ran on the first turn after the disclaimer, the turn failed
\* on its result and no field had been written
C14_Witness ==
  /\ service = "object"
  /\ extraction # <<>>
  /\ intent_raises(extraction[1])
  /\ reply = ReplyError
  /\ state = [InitialState EXCEPT !.disclaimer_done = TRUE]

\* the turn reached the dispatch and was dispatched as check_availability
AvailabilityTurn ==
  /\ TurnStep
  /\ extraction' # <<>>
  /\ ~intent_raises(extraction'[1])
  /\ effective_intent(state, extraction'[1]) = "check_availability"

\* C15: a turn dispatched as check_availability leaves the Booking store, the
\* six fields of the booking sub-state and provided_code as they were, only
\* STATE.intent changes; it asks for the first of topic, day and time that the
\* extraction result of this turn lacks, or, with a time preference that is a
\* string, reports the two slots of mock_pick_two_slots.
C15_AvailabilityWritesNothing ==
  [][ AvailabilityTurn
      => /\ BOOKINGS' = BOOKINGS
         /\ state' = [state EXCEPT !.intent = "check_availability"]
         /\ LET topic     == Get(extraction'[1], "topic")
                day_pref  == Get(extraction'[1], "day_preference")
                time_pref == Get(extraction'[1], "time_preference")
            IN IF ~InTopics(topic) THEN reply' = ReplyAskTopic
               ELSE IF ~Truthy(day_pref) THEN reply' = ReplyAvailabilityDay
               ELSE IF ~Truthy(time_pref) THEN reply' = ReplyAvailabilityTime
               ELSE time_pref \notin NonStrings
                      => reply' = ReplyAvailability(topic,
                                    mock_pick_two_slots(day_pref, time_pref)) ]_vars

\* two slots were reported for a topic, and no booking was started
C15_Witness ==
  /\ reply = ReplyAvailability("KYC/Onboarding", << MOCK_SLOTS[1], MOCK_SLOTS[2] >>)
  /\ state.intent = "check_availability"
  /\ BookingNull(state)
  /\ BOOKINGS = <<>>

\* the turn reached the book flow with a slot selected and no booking code
ConfirmationTurn ==
  /\ TurnStep
  /\ extraction' # <<>>
  /\ ~intent_raises(extraction'[1])
  /\ state.selected_slot # <<>>
  /\ ~Truthy(state.booking_code)

\* C16: on a turn of the book flow taken with selected_slot non-null and
\* booking_code null, a text with "yes" stores a generated code in
\* booking_code and puts the record of topic, selected slot and timezone under
\* it in BOOKINGS; any other text sets selected_slot to null and leaves topic,
\* day_pref, time_pref, offered_slots, provided_code and BOOKINGS as they were.
C16_YesBooksElseReselect ==
  [][ ConfirmationTurn
      => IF Has(request[1], "yes")
         THEN /\ state'.booking_code \in GeneratedCodes
              /\ state' = [state EXCEPT !.booking_code = state'.booking_code]
              /\ BOOKINGS' = Put(BOOKINGS, state'.booking_code,
                                 [ topic    |-> state.topic,
                                   slot     |-> state.selected_slot[1],
                                   timezone |-> TIMEZONE_LABEL ])
              /\ reply' = ReplyBooked(state'.booking_code, state.selected_slot[1],
                                      state.topic)
         ELSE /\ state' = [state EXCEPT !.selected_slot = <<>>]
              /\ BOOKINGS' = BOOKINGS
              /\ reply' = ReplyReselect ]_vars

\* the evening pair was offered, a slot selected and the confirmation
\* declined: the pair is still on offer and nothing is booked
C16_Witness ==
  /\ reply = ReplyReselect
  /\ state.time_pref = "evening"
  /\ state.offered_slots = << MOCK_SLOTS[4], MOCK_SLOTS[3] >>
  /\ state.selected_slot = <<>>
  /\ ~Truthy(state.booking_code)
  /\ BOOKINGS = <<>>

\* the turn reached the book flow with slots on offer and none selected
SelectionTurn ==
  /\ TurnStep
  /\ extraction' # <<>>
  /\ ~intent_raises(extraction'[1])
  /\ state.offered_slots # <<>>
  /\ state.selected_slot = <<>>

\* C17: selected_slot, when non-null, is one of the two offered slots; a turn
\* of the book flow taken with slots on offer and none selected selects the
\* first for a text with "1" or "one", else the second for "2" or "two", else
\* changes nothing and asks again; it creates no Booking and sets no
\* booking_code, with "yes" in the text too. Every step that creates a Booking
\* starts with a slot already selected.
C17_SelectionThenConfirmation ==
  [][ /\ state'.selected_slot # <<>>
        => state'.selected_slot[1] \in
             { state'.offered_slots[1], state'.offered_slots[2] }
      /\ SelectionTurn
        => /\ BOOKINGS' = BOOKINGS
           /\ ~Truthy(state'.booking_code)
           /\ IF Has(request[1], "1") \/ Has(request[1], "one")
                THEN /\ state' = [state EXCEPT
                                    !.selected_slot = << state.offered_slots[1] >>]
                     /\ reply' = ReplyConfirm(state.topic, state.offered_slots[1])
              ELSE IF Has(request[1], "2") \/ Has(request[1], "two")
                THEN /\ state' = [state EXCEPT
                                    !.selected_slot = << state.offered_slots[2] >>]
                     /\ reply' = ReplyConfirm(state.topic, state.offered_slots[2])
              ELSE /\ state' = state
                   /\ reply' = ReplyOneOrTwo
      /\ BOOKINGS' # BOOKINGS => state.selected_slot # <<>> ]_vars

\* the second slot was selected and the confirmation asked: nothing is booked
C17_Witness ==
  /\ state.selected_slot # <<>>
  /\ state.selected_slot[1] = state.offered_slots[2]
  /\ reply = ReplyConfirm(state.topic, state.offered_slots[2])
  /\ ~Truthy(state.booking_code)
  /\ BOOKINGS = <<>>

\* the turn reached the dispatch and was dispatched as reschedule
RescheduleTurn ==
  /\ TurnStep
  /\ extraction' # <<>>
  /\ ~intent_raises(extraction'[1])
  /\ effective_intent(state, extraction'[1]) = "reschedule"

\* C18: on a turn dispatched as reschedule with provided_code null, a text
\* with a booking code stores it in provided_code, leaves the booking
\* sub-state null and asks for topic, day and time without entering the book
\* flow; a text without one changes STATE.intent only and asks for the code.
\* With provided_code set the turn goes on as book_new: STATE.intent is
\* book_new, provided_code is kept and the book flow answers on this turn,
\* taking the fields of this turn's extraction result.
C18_RescheduleTakesCodeThenBooks ==
  [][ RescheduleTurn
      => /\ BOOKINGS' = BOOKINGS
         /\ IF ~Truthy(state.provided_code) /\ Truthy(extract_booking_code(request[1]))
              THEN /\ state' = [state EXCEPT
                                  !.intent = "reschedule",
                                  !.provided_code = extract_booking_code(request[1])]
                   /\ BookingNull(state')
                   /\ reply' = ReplyRescheduleCode(extract_booking_code(request[1]))
            ELSE IF ~Truthy(state.provided_code)
              THEN /\ state' = [state EXCEPT !.intent = "reschedule"]
                   /\ reply' = ReplyAskCode
            ELSE /\ state'.intent = "book_new"
                 /\ state'.provided_code = state.provided_code
                 /\ IF InTopics(Get(extraction'[1], "topic"))
                      THEN /\ state'.topic = extraction'[1].topic
                           /\ reply'[1] \in BookFlowReplies
                    ELSE /\ state' = [state EXCEPT !.intent = "book_new"]
                         /\ reply' = ReplyAskTopic ]_vars

\* the code said in lower case was taken for a reschedule and the turn stopped
C18_Witness ==
  /\ reply = ReplyRescheduleCode("NL-B1C3")
  /\ state.intent = "reschedule"
  /\ state.provided_code = "NL-B1C3"
  /\ BookingNull(state)

\* the six fields of the booking sub-state and provided_code
BookingFields(S) ==
  << S.topic, S.day_pref, S.time_pref, S.offered_slots, S.selected_slot,
     S.booking_code, S.provided_code >>

\* C20: once booking_code is non-null, no step changes any of the six fields
\* of the booking sub-state, provided_code or the Booking store, whatever the
\* text and the extracted intent; the store never holds more than one record.
C20_ConfirmedIsAbsorbing ==
  [][ /\ Truthy(state.booking_code)
        => /\ BookingFields(state') = BookingFields(state)
           /\ BOOKINGS' = BOOKINGS
      /\ Cardinality(DOMAIN BOOKINGS') <= 1 ]_vars

\* after the booking the service read a cancellation with a code in the text:
\* the turn stayed in the book flow and the booking stands
C20_Witness ==
  /\ Truthy(state.booking_code)
  /\ extraction # <<>>
  /\ Get(extraction[1], "intent") = "cancel"
  /\ reply = ReplyAllSet
  /\ state.booking_code \in DOMAIN BOOKINGS
  /\ ~Truthy(state.provided_code)

\* C19: once the caller, in a state with the disclaimer shown and no booking
\* code, only gives clean answers to the questions of the book flow and the
\* local parser serves the extraction, no turn is answered with the menu and
\* after at most five turns the Booking is made.
C19_BookedWithinFiveAnswers ==
  answers # <<>>
    => /\ reply # ReplyMenu
       /\ answers[1] >= MaxAnswers
            => /\ Truthy(state.booking_code)
               /\ state.booking_code \in DOMAIN BOOKINGS

\* C21: with the local parser serving the extraction, the turn that follows a
\* cancel turn which found no code and asked for one, and whose text is a
\* booking code and nothing else, is answered by the cancel flow: the reply
\* notes the cancellation for that code and is not the menu.
C21_CodeAloneCompletesCancel ==
  [][ ( /\ TurnStep
        /\ answers = << 0 >> )
      => /\ reply' = ReplyCancelled(extract_booking_code(request[1]))
         /\ reply' # ReplyMenu ]_vars

\* a secure-details request was answered with an error
DetailsError ==
  /\ call' # call \/ result' # result \/ SECURE_DETAILS_STORE' # SECURE_DETAILS_STORE
  /\ "error" \in DOMAIN result'[1]

\* C22: a secure-details request answered with an error (booking code or
\* email missing, or no Booking under the code) leaves the secure-contact
\* store as it was, and every key of the store is the code of a Booking.
C22_ErrorsLeaveStore ==
  /\ [][ DetailsError => SECURE_DETAILS_STORE' = SECURE_DETAILS_STORE ]_vars
  /\ [](DOMAIN SECURE_DETAILS_STORE \subseteq DOMAIN BOOKINGS)

====
